---- MODULE Spec2Model ----
(***************************************************************************)
(* LiveDisplay RGB colour correction of the MDSS panel driver              *)
(* (drivers/video/msm/mdss/mdss_livedisplay.c).                            *)
(*                                                                         *)
(* One panel context (struct mdss_livedisplay_ctx), the sysfs "rgb"        *)
(* attribute handlers running on user threads, mdss_livedisplay_update,    *)
(* and the work item running on the context's single-threaded workqueue.   *)
(* Every access to shared memory is one step, so that the handlers         *)
(* interleave the way the threads of the kernel can.                       *)
(***************************************************************************)
EXTENDS Integers, Sequences, FiniteSets, TLC

(***************************************************************************)
(* Bounds of the model.                                                    *)
(***************************************************************************)
\* total number of sysfs / update calls made in one behaviour
MaxCalls == 3

(***************************************************************************)
(* Program constants.                                                      *)
(***************************************************************************)
UNITY == 32768
MAX_COUNT == 19
MODE_RGB == 1
MDP_LOGICAL_BLOCK_DISP_0 == 16
MDP_PP_OPS_ENABLE == 1
MDP_PP_OPS_WRITE == 4
MDP_PP_OPS_DISABLE == 8
HALF == 65536

Threads == {"t1", "t2"}
Before(u, t) == u = "t1" /\ t = "t2"
Worker == "kworker"
\* mfd->index of the framebuffer the context is attached to
Indexes == {0}

(***************************************************************************)
(* Text.  A buffer is a sequence of one-character strings.                 *)
(***************************************************************************)
DigitChars == <<"0", "1", "2", "3", "4", "5", "6", "7", "8", "9">>
Digits == {DigitChars[i] : i \in 1..10}
Spaces == {" ", "\n", "\t"}

DigitVal(c) == (CHOOSE i \in 1..10 : DigitChars[i] = c) - 1

\* the user buffers written to the rgb attribute
TxtMixed == <<"3","2","7","6","8"," ","1","7","3","4","7"," ","0">>
TxtOver == <<"4","0","0","0","0"," ","0"," ","0">>
TxtLastOver == <<"0"," ","0"," ","4","0","0","0","0">>
TxtNeg == <<"-","1"," ","0"," ","0">>
TxtAbc == <<"a","b","c">>
TxtLong == <<"0","0","0","0","0","0","0","1"," ","0","0","0","0","0","0","2"," ","0","0","3">>
TxtWrap == <<"4","2","9","4","9","6","7","2","9","6"," ","0"," ","0">>

Inputs == {TxtMixed, TxtOver, TxtLastOver, TxtNeg, TxtAbc, TxtLong, TxtWrap}

(***************************************************************************)
(* 32-bit arithmetic of simple_strtoul / simple_strtol, on 16-bit halves.  *)
(***************************************************************************)
U32Zero == [hi |-> 0, lo |-> 0]

\* result = result * 10 + value, modulo 2^32
U32MulAdd(p, d) ==
    LET lo10 == p.lo * 10 + d
    IN  [hi |-> (p.hi * 10 + (lo10 \div HALF)) % HALF, lo |-> lo10 % HALF]

\* -result, modulo 2^32
U32Neg(p) ==
    IF p.lo = 0 THEN [hi |-> (HALF - p.hi) % HALF, lo |-> 0]
                ELSE [hi |-> HALF - 1 - p.hi, lo |-> HALF - p.lo]

\* the int that a 32-bit pattern is
ToInt32(p) ==
    IF p.hi >= HALF \div 2 THEN (p.hi - HALF) * HALF + p.lo
                           ELSE p.hi * HALF + p.lo

\* skip_spaces(str): the first position at or after i that holds no space
RECURSIVE SkipSpaces(_, _)
SkipSpaces(s, i) ==
    IF i <= Len(s) /\ s[i] \in Spaces THEN SkipSpaces(s, i + 1) ELSE i

\* simple_strtoul: the digits from position i on
RECURSIVE StrToUl(_, _, _)
StrToUl(s, i, acc) ==
    IF i <= Len(s) /\ s[i] \in Digits
    THEN StrToUl(s, i + 1, U32MulAdd(acc, DigitVal(s[i])))
    ELSE [val |-> acc, next |-> i]

\* one %d conversion at position i: [ok, val, next]
ScanInt(s, i) ==
    LET j == SkipSpaces(s, i)
        neg == j <= Len(s) /\ s[j] = "-"
        d == IF neg THEN j + 1 ELSE j
    IN  IF d > Len(s) \/ s[d] \notin Digits
        THEN [ok |-> FALSE, val |-> 0, next |-> j]
        ELSE LET u == StrToUl(s, d, U32Zero)
             IN  [ok |-> TRUE,
                  val |-> ToInt32(IF neg THEN U32Neg(u.val) ELSE u.val),
                  next |-> u.next]

\* sscanf(buf, "%d %d %d", &r, &g, &b) with r = g = b = 0 before the call:
\* the three locals and the number of conversions made
Sscanf3(buf) ==
    LET a == ScanInt(buf, 1)
        bb == IF a.ok THEN ScanInt(buf, a.next) ELSE a
        c == IF a.ok /\ bb.ok THEN ScanInt(buf, bb.next) ELSE bb
    IN  [r |-> IF a.ok THEN a.val ELSE 0,
         g |-> IF a.ok /\ bb.ok THEN bb.val ELSE 0,
         b |-> IF a.ok /\ bb.ok /\ c.ok THEN c.val ELSE 0,
         n |-> IF ~a.ok THEN 0 ELSE IF ~bb.ok THEN 1 ELSE IF ~c.ok THEN 2 ELSE 3]

\* "%d": the decimal text of an int
RECURSIVE NatToText(_)
NatToText(n) ==
    IF n < 10 THEN <<DigitChars[n + 1]>>
              ELSE Append(NatToText(n \div 10), DigitChars[(n % 10) + 1])

IntToText(v) == IF v < 0 THEN <<"-">> \o NatToText(-v) ELSE NatToText(v)

\* the arguments of scnprintf in the order r, b, g
FormatRgbSwapped(x, y, z) ==
    IntToText(x) \o <<" ">> \o IntToText(z) \o <<" ">> \o IntToText(y) \o <<"\n">>

\* scnprintf(buf, PAGE_SIZE, "%d %d %d\n", r, g, b)
FormatRgb(x, y, z) ==
    IntToText(x) \o <<" ">> \o IntToText(y) \o <<" ">> \o IntToText(z) \o <<"\n">>

(***************************************************************************)
(* Pure parts of the handlers.                                             *)
(***************************************************************************)
\* the range test without its upper limit
RgbInvalidLow(v) == v < 0

\* the range test as it would be on an int with the first test left out
RgbInvalidSigned(v) == v > UNITY

\* "r < 0 || r > 32768" on a uint32_t that holds the int v: the first test is
\* never true of an unsigned value, and a negative int is a value >= 2^31
RgbInvalid(v) == v < 0 \/ v > UNITY

\* set_rgb's tests before it touches the context
SetRgbRejects(buf) ==
    LET p == Sscanf3(buf)
    IN  Len(buf) > MAX_COUNT \/ RgbInvalid(p.r) \/ RgbInvalid(p.g) \/ RgbInvalid(p.b)

\* mlc->updated & MODE_RGB
HasRgb(u) == (u \div MODE_RGB) % 2 = 1

\* "&=" written for "|="
OrModeAnd(u, m) == IF HasRgb(u) THEN m ELSE 0

\* mlc->updated |= updated, for the one mode bit there is
OrMode(u, m) == IF HasRgb(u) THEN u ELSE u + m

\* pcc_cfg.block
PccBlockOf(idx) == idx + MDP_LOGICAL_BLOCK_DISP_0

\* "||" written for "&&" in the test for unity gain
PccOpsAny(x, y, z) ==
    (IF x = UNITY \/ y = UNITY \/ z = UNITY THEN MDP_PP_OPS_DISABLE
                                            ELSE MDP_PP_OPS_ENABLE)
    + MDP_PP_OPS_WRITE

\* pcc_cfg.ops: the three flags are distinct bits, so | is +
PccOpsOf(x, y, z) ==
    (IF x = UNITY /\ y = UNITY /\ z = UNITY THEN MDP_PP_OPS_DISABLE
                                            ELSE MDP_PP_OPS_ENABLE)
    + MDP_PP_OPS_WRITE

\* a queue that takes the item once per request
QueueWorkAgain(q) == q + 1

\* queue_work: the work item is queued unless it already is
QueueWork(q) == IF q >= 1 THEN q ELSE q + 1

\* struct mdp_pcc_coeff after memset
ZeroCoeff ==
    [c |-> 0, r |-> 0, g |-> 0, b |-> 0, rr |-> 0, gg |-> 0, bb |-> 0,
     rg |-> 0, gb |-> 0, rb |-> 0, rgb_0 |-> 0, rgb_1 |-> 0]

\* struct mdp_pcc_cfg_data after memset
ZeroCfg == [block |-> 0, ops |-> 0, r |-> ZeroCoeff, g |-> ZeroCoeff, b |-> ZeroCoeff]

(***************************************************************************)
(* State.                                                                  *)
(***************************************************************************)
VARIABLES
    phase,      \* "boot", "parsed" (parse_dt done), "ready" (sysfs there), "dead"
    parseIn,    \* the arguments parse_dt was called with
    parseRet,   \* what parse_dt returned
    mlc,        \* pinfo->livedisplay: "NULL" or "ctx"
    index,      \* mlc->mfd->index
    r, g, b,    \* mlc->r, mlc->g, mlc->b
    updated,    \* mlc->updated
    lock,       \* owner of mlc->lock, or "free"
    queued,     \* 1 when mlc->update_work is queued and has not started
    power,      \* the panel is in the interactive power state
    wpc,        \* where the work item is
    wrc,        \* what mdss_mdp_user_pcc_config returned in this run
    pcc_cfg,    \* the static command buffer of update_pcc
    hw,         \* the command last given to mdss_mdp_user_pcc_config
    tpc,        \* where each user thread is
    top,        \* the entry point each user thread came through
    tbuf,       \* buf of the set_rgb call in progress
    tloc,       \* the locals r, g, b of the set_rgb call in progress
    tgot,       \* what the get_rgb call in progress has read
    tleft,      \* the fields the get_rgb call in progress has yet to read
    tret,       \* the value a call returns
    ncalls,     \* calls made so far
    \* history
    wid,        \* the number of the store that wrote the triple now in the context
    tid,        \* the number of the store of the call in progress (0: none)
    lastSet,    \* the triple the last complete store wrote
    tclean,     \* no store overlapped the get_rgb call in progress
    exposed,    \* stores that a worker run earlier than the one queued for them overlapped
    burst,      \* stores whose call returned since the work item was queued
    served,     \* the burst of the run that is under way
    submitted,  \* stores whose triple was given to the hardware
    runs,       \* worker runs started since queue_work was last called
    owed,       \* a request has been made that no command has answered yet
    deferred,   \* a run left at the power test with the update still pending
    \* a second panel
    p2          \* its context, its work item and the calls made on it

ctxVars == <<r, g, b, updated, lock, queued>>
envVars == <<power>>
bootVars == <<phase, parseIn, parseRet, mlc, index>>
workVars == <<wpc, wrc, pcc_cfg, hw>>
userVars == <<tpc, top, tbuf, tloc, tgot, tleft, tret, ncalls>>
histVars == <<wid, tid, lastSet, tclean, exposed, burst, served, submitted, runs, owed,
              deferred>>
vars == <<bootVars, ctxVars, envVars, workVars, userVars, histVars, p2>>

RetNone == [k |-> "none", v |-> 0]
RetErr(e) == [k |-> "err", v |-> e]
RetCount(n) == [k |-> "count", v |-> n]
RetText(s) == [k |-> "text", v |-> s]
EINVAL == 22
ENODEV == 19
ENOMEM == 12
EIO == 5
NoCmd == [block |-> -1, ops |-> 0, r |-> ZeroCoeff, g |-> ZeroCoeff, b |-> ZeroCoeff]
NoTriple == <<-1, -1, -1>>

\* the second panel before mdss_livedisplay_parse_dt was called for it
NoPanel ==
    [pc |-> "idle", index |-> 1, r |-> 0, g |-> 0, b |-> 0, updated |-> 0,
     lock |-> "free", queued |-> 0]

Init ==
    /\ phase = "boot" /\ parseIn = [pinfo |-> TRUE, alloc |-> TRUE]
    /\ parseRet = RetNone /\ mlc = "NULL" /\ index = 0
    /\ r = 0 /\ g = 0 /\ b = 0 /\ updated = 0 /\ lock = "free" /\ queued = 0
    /\ power = FALSE
    /\ wpc = "idle" /\ wrc = RetNone /\ pcc_cfg = ZeroCfg /\ hw = NoCmd
    /\ tpc = [t \in Threads |-> "idle"]
    /\ top = [t \in Threads |-> "none"]
    /\ tbuf = [t \in Threads |-> <<>>]
    /\ tloc = [t \in Threads |-> <<0, 0, 0>>]
    /\ tgot = [t \in Threads |-> NoTriple]
    /\ tleft = [t \in Threads |-> {}]
    /\ tret = [t \in Threads |-> RetNone]
    /\ ncalls = 0
    /\ wid = 0 /\ tid = [t \in Threads |-> 0]
    /\ lastSet = NoTriple
    /\ tclean = [t \in Threads |-> TRUE]
    /\ exposed = {} /\ burst = {} /\ served = {} /\ submitted = {}
    /\ runs = 0 /\ owed = FALSE /\ deferred = FALSE
    /\ p2 = NoPanel

(***************************************************************************)
(* mdss_livedisplay_parse_dt and mdss_livedisplay_create_sysfs.            *)
(***************************************************************************)
\* parse_dt(np, pinfo): pinfoOk says pinfo is not NULL, allocOk that kzalloc
\* gave memory.  kzalloc's result is not tested: with no memory the stores to
\* mlc->r.. go through a NULL pointer, which ends in an oops or (page zero
\* mapped) runs on to "return 0" with the NULL pointer kept in pinfo.
ParseDt(pinfoOk, allocOk) ==
    /\ phase = "boot"
    /\ parseIn' = [pinfo |-> pinfoOk, alloc |-> allocOk]
    /\ IF ~pinfoOk
       THEN /\ parseRet' = RetErr(ENODEV) /\ phase' = "dead"
            /\ UNCHANGED <<mlc, ctxVars>>
       ELSE IF allocOk
       THEN /\ r' = UNITY /\ g' = UNITY /\ b' = UNITY
            /\ updated' = 0 /\ lock' = "free" /\ queued' = 0
            /\ mlc' = "ctx" /\ parseRet' = RetCount(0) /\ phase' = "parsed"
       ELSE /\ parseRet' \in {[k |-> "oops", v |-> 0], RetCount(0)}
            /\ phase' = "dead"
            /\ UNCHANGED <<mlc, ctxVars>>
    /\ UNCHANGED <<p2, index, envVars, workVars, userVars, histVars>>

\* create_sysfs(mfd): rc is what sysfs_create_file returns
CreateSysfs(idx, rc) ==
    /\ phase = "parsed" /\ mlc # "NULL"
    /\ IF rc = 0 THEN index' = idx /\ phase' = "ready"
                 ELSE index' = index /\ phase' = "dead"
    /\ UNCHANGED <<p2, parseIn, parseRet, mlc, ctxVars, envVars, workVars, userVars, histVars>>

(***************************************************************************)
(* The panel, as the work item sees it.                                    *)
(***************************************************************************)
\* a panel that puts the work item on the queue when it becomes interactive
PowerChangeKicks ==
    /\ phase = "ready" /\ power' = ~power
    /\ queued' = IF power' THEN 1 ELSE queued
    /\ owed' = (owed /\ power')
    /\ deferred' = deferred
    /\ UNCHANGED <<p2, bootVars, r, g, b, updated, lock, workVars, userVars,
                   wid, tid, lastSet, tclean, exposed, burst, served, submitted, runs>>

\* a request is owed its command only while the panel stays usable
PowerChange ==
    /\ phase = "ready" /\ power' = ~power
    /\ owed' = (owed /\ power')
    /\ deferred' = deferred
    /\ UNCHANGED <<p2, bootVars, ctxVars, workVars, userVars,
                   wid, tid, lastSet, tclean, exposed, burst, served, submitted, runs>>


(***************************************************************************)
(* mdss_livedisplay_set_rgb, on user thread t.                             *)
(***************************************************************************)
\* a call runs on the first thread that is free
FirstFree(t) == \A u \in Threads : tpc[u] = "idle" => ~Before(u, t)

\* r, g and b after sscanf
Parsed(t) == LET p == Sscanf3(tbuf[t]) IN <<p.r, p.g, p.b>>

\* a write to the rgb attribute arrives; count is Len(buf)
SetRgbCall(t, buf) ==
    /\ phase = "ready" /\ tpc[t] = "idle" /\ FirstFree(t) /\ ncalls < MaxCalls
    /\ tpc' = [tpc EXCEPT ![t] = "set_entry"]
    /\ top' = [top EXCEPT ![t] = "set"]
    /\ tbuf' = [tbuf EXCEPT ![t] = buf]
    /\ ncalls' = ncalls + 1
    /\ UNCHANGED <<p2, tloc, tgot, tleft, tret, bootVars, ctxVars, envVars, workVars, histVars>>

\* the count test, sscanf and the three range tests; mfd is the attribute's
\* own framebuffer and is not NULL
SetRgbCheck(t) ==
    /\ tpc[t] = "set_entry"
    /\ IF SetRgbRejects(tbuf[t])
       THEN /\ tpc' = [tpc EXCEPT ![t] = "ret"]
            /\ tret' = [tret EXCEPT ![t] = RetErr(EINVAL)]
            /\ tloc' = tloc
       ELSE /\ tpc' = [tpc EXCEPT ![t] = "set_lock"]
            /\ tret' = tret
            /\ tloc' = [tloc EXCEPT ![t] = Parsed(t)]
    /\ UNCHANGED <<p2, top, tbuf, tgot, tleft, ncalls, bootVars, ctxVars, envVars, workVars, histVars>>

\* a set_rgb that goes on without waiting for the lock to be free
SetRgbLockBarges(t) ==
    /\ tpc[t] = "set_lock"
    /\ lock' = t
    /\ tpc' = [tpc EXCEPT ![t] = "set_r"]
    /\ UNCHANGED <<p2, r, g, b, updated, queued, top, tbuf, tloc, tgot, tleft, tret, ncalls,
                   bootVars, envVars, workVars, histVars>>

\* mutex_lock(&mlc->lock)
SetRgbLock(t) ==
    /\ tpc[t] = "set_lock" /\ lock = "free"
    /\ lock' = t
    /\ tpc' = [tpc EXCEPT ![t] = "set_r"]
    /\ UNCHANGED <<p2, r, g, b, updated, queued, top, tbuf, tloc, tgot, tleft, tret, ncalls,
                   bootVars, envVars, workVars, histVars>>

\* The stores that still matter are numbered in the order they are made: those
\* of the calls under way, of the open burst and of the burst being served.
InFlight == {tid[t] : t \in {u \in Threads : tid[u] # 0}}
Live == burst \cup served \cup InFlight
NewStore == IF Live = {} THEN 1 ELSE 1 + CHOOSE x \in Live : \A y \in Live : y <= x

\* a store into the context overlaps every get_rgb that has not returned
Dirtied(t) == [u \in Threads |-> IF u # t /\ top[u] = "get" THEN FALSE ELSE tclean[u]]

SetRgbStoreR(t) ==
    /\ tpc[t] = "set_r"
    /\ r' = tloc[t][1]
    /\ tpc' = [tpc EXCEPT ![t] = "set_g"]
    /\ wid' = NewStore
    /\ tid' = [tid EXCEPT ![t] = NewStore]
    /\ exposed' = IF wpc # "idle" THEN exposed \cup {NewStore} ELSE exposed
    /\ tclean' = Dirtied(t)
    /\ UNCHANGED <<p2, g, b, updated, lock, queued, top, tbuf, tloc, tgot, tleft, tret, ncalls,
                   bootVars, envVars, workVars,
                   lastSet, burst, served, submitted, runs, owed, deferred>>

SetRgbStoreG(t) ==
    /\ tpc[t] = "set_g"
    /\ g' = tloc[t][2]
    /\ tpc' = [tpc EXCEPT ![t] = "set_b"]
    /\ tclean' = Dirtied(t)
    /\ UNCHANGED <<p2, r, b, updated, lock, queued, top, tbuf, tloc, tgot, tleft, tret, ncalls,
                   bootVars, envVars, workVars,
                   wid, tid, lastSet, exposed, burst, served, submitted, runs, owed, deferred>>

SetRgbStoreB(t) ==
    /\ tpc[t] = "set_b"
    /\ b' = tloc[t][3]
    /\ tpc' = [tpc EXCEPT ![t] = "set_unlock"]
    /\ tclean' = Dirtied(t)
    /\ lastSet' = tloc[t]
    /\ UNCHANGED <<p2, r, g, updated, lock, queued, top, tbuf, tloc, tgot, tleft, tret, ncalls,
                   bootVars, envVars, workVars,
                   wid, tid, exposed, burst, served, submitted, runs, owed, deferred>>

\* mutex_unlock, then the call of mdss_livedisplay_update(mlc, MODE_RGB)
SetRgbUnlock(t) ==
    /\ tpc[t] = "set_unlock"
    /\ lock' = "free"
    /\ tpc' = [tpc EXCEPT ![t] = "upd_lock"]
    /\ UNCHANGED <<p2, r, g, b, updated, queued, top, tbuf, tloc, tgot, tleft, tret, ncalls,
                   bootVars, envVars, workVars, histVars>>

(***************************************************************************)
(* mdss_livedisplay_update(mlc, MODE_RGB), called by set_rgb or, being     *)
(* exported, by the panel driver on a thread of its own.                   *)
(***************************************************************************)
UpdateCall(t) ==
    /\ phase = "ready" /\ tpc[t] = "idle" /\ FirstFree(t) /\ ncalls < MaxCalls
    /\ tpc' = [tpc EXCEPT ![t] = "upd_lock"]
    /\ top' = [top EXCEPT ![t] = "upd"]
    /\ ncalls' = ncalls + 1
    /\ UNCHANGED <<p2, tbuf, tloc, tgot, tleft, tret, bootVars, ctxVars, envVars, workVars, histVars>>

UpdateLock(t) ==
    /\ tpc[t] = "upd_lock" /\ lock = "free"
    /\ lock' = t
    /\ tpc' = [tpc EXCEPT ![t] = "upd_or"]
    /\ UNCHANGED <<p2, r, g, b, updated, queued, top, tbuf, tloc, tgot, tleft, tret, ncalls,
                   bootVars, envVars, workVars, histVars>>

UpdateOr(t) ==
    /\ tpc[t] = "upd_or"
    /\ updated' = OrMode(updated, MODE_RGB)
    /\ tpc' = [tpc EXCEPT ![t] = "upd_unlock"]
    /\ owed' = (owed \/ power)
    /\ deferred' = deferred
    /\ UNCHANGED <<p2, r, g, b, lock, queued, top, tbuf, tloc, tgot, tleft, tret, ncalls,
                   bootVars, envVars, workVars,
                   wid, tid, lastSet, tclean, exposed, burst, served, submitted, runs>>

\* an update that goes on to queue_work without mutex_unlock
UpdateUnlockKeeps(t) ==
    /\ tpc[t] = "upd_unlock"
    /\ tpc' = [tpc EXCEPT ![t] = "upd_queue"]
    /\ UNCHANGED <<p2, top, tbuf, tloc, tgot, tleft, tret, ncalls,
                   bootVars, ctxVars, envVars, workVars, histVars>>

\* mutex_unlock(&mlc->lock)
UpdateUnlock(t) ==
    /\ tpc[t] = "upd_unlock"
    /\ lock' = "free"
    /\ tpc' = [tpc EXCEPT ![t] = "upd_queue"]
    /\ UNCHANGED <<p2, r, g, b, updated, queued, top, tbuf, tloc, tgot, tleft, tret, ncalls,
                   bootVars, envVars, workVars, histVars>>

\* queue_work, and the return: set_rgb returns count
UpdateQueue(t) ==
    /\ tpc[t] = "upd_queue"
    /\ queued' = QueueWork(queued)
    /\ tpc' = [tpc EXCEPT ![t] = "ret"]
    /\ tret' = [tret EXCEPT ![t] =
                   IF top[t] = "set" THEN RetCount(Len(tbuf[t])) ELSE RetNone]
    /\ runs' = 0
    /\ burst' = IF tid[t] # 0 THEN burst \cup {tid[t]} ELSE burst
    /\ tid' = [tid EXCEPT ![t] = 0]
    /\ UNCHANGED <<p2, r, g, b, updated, lock, top, tbuf, tloc, tgot, tleft, ncalls,
                   bootVars, envVars, workVars,
                   wid, lastSet, tclean, exposed, served, submitted, owed, deferred>>

(***************************************************************************)
(* mdss_livedisplay_get_rgb, on user thread t.  The three fields are read  *)
(* without the lock, as arguments of one call: in an order the compiler    *)
(* chooses.                                                                *)
(***************************************************************************)
GetRgbCall(t) ==
    /\ phase = "ready" /\ tpc[t] = "idle" /\ FirstFree(t) /\ ncalls < MaxCalls
    /\ tpc' = [tpc EXCEPT ![t] = "get_read"]
    /\ top' = [top EXCEPT ![t] = "get"]
    /\ tleft' = [tleft EXCEPT ![t] = {"r", "g", "b"}]
    /\ tgot' = [tgot EXCEPT ![t] = NoTriple]
    /\ tclean' = [tclean EXCEPT ![t] = \A u \in Threads : tpc[u] \notin {"set_g", "set_b"}]
    /\ ncalls' = ncalls + 1
    /\ UNCHANGED <<p2, tbuf, tloc, tret, bootVars, ctxVars, envVars, workVars,
                   wid, tid, lastSet, exposed, burst, served, submitted, runs, owed, deferred>>

\* a get_rgb that passes mlc->g for the third argument as well
GetRgbReadCrossed(t, ch) ==
    /\ tpc[t] = "get_read" /\ ch \in tleft[t]
    /\ LET got == CASE ch = "r" -> <<r, tgot[t][2], tgot[t][3]>>
                    [] ch = "g" -> <<tgot[t][1], g, tgot[t][3]>>
                    [] ch = "b" -> <<tgot[t][1], tgot[t][2], g>>
       IN  /\ tgot' = [tgot EXCEPT ![t] = got]
           /\ tleft' = [tleft EXCEPT ![t] = tleft[t] \ {ch}]
           /\ IF tleft[t] = {ch}
              THEN /\ tpc' = [tpc EXCEPT ![t] = "ret"]
                   /\ tret' = [tret EXCEPT ![t] = RetText(FormatRgb(got[1], got[2], got[3]))]
              ELSE UNCHANGED <<tpc, tret>>
    /\ UNCHANGED <<p2, top, tbuf, tloc, ncalls, bootVars, ctxVars, envVars, workVars, histVars>>

\* the read of one field; scnprintf and the return follow the last read
GetRgbRead(t, ch) ==
    /\ tpc[t] = "get_read" /\ ch \in tleft[t]
    /\ LET got == CASE ch = "r" -> <<r, tgot[t][2], tgot[t][3]>>
                    [] ch = "g" -> <<tgot[t][1], g, tgot[t][3]>>
                    [] ch = "b" -> <<tgot[t][1], tgot[t][2], b>>
       IN  /\ tgot' = [tgot EXCEPT ![t] = got]
           /\ tleft' = [tleft EXCEPT ![t] = tleft[t] \ {ch}]
           /\ IF tleft[t] = {ch}
              THEN /\ tpc' = [tpc EXCEPT ![t] = "ret"]
                   /\ tret' = [tret EXCEPT ![t] = RetText(FormatRgb(got[1], got[2], got[3]))]
              ELSE UNCHANGED <<tpc, tret>>
    /\ UNCHANGED <<p2, top, tbuf, tloc, ncalls, bootVars, ctxVars, envVars, workVars, histVars>>

\* the caller has the result
Return(t) ==
    /\ tpc[t] = "ret"
    /\ tpc' = [tpc EXCEPT ![t] = "idle"]
    /\ top' = [top EXCEPT ![t] = "none"]
    /\ tbuf' = [tbuf EXCEPT ![t] = <<>>]
    /\ tloc' = [tloc EXCEPT ![t] = <<0, 0, 0>>]
    /\ tgot' = [tgot EXCEPT ![t] = NoTriple]
    /\ tret' = [tret EXCEPT ![t] = RetNone]
    /\ tclean' = [tclean EXCEPT ![t] = TRUE]
    /\ UNCHANGED <<p2, tleft, ncalls, bootVars, ctxVars, envVars, workVars,
                   wid, tid, lastSet, exposed, burst, served, submitted, runs, owed, deferred>>

(***************************************************************************)
(* mdss_livedisplay_worker, the work item of the single-threaded queue.    *)
(***************************************************************************)
\* when a run ends its burst is history, and so is what was noted of it
RunEnds ==
    /\ served' = {}
    /\ exposed' = exposed \cap (burst \cup InFlight)
    /\ submitted' = submitted \cap (burst \cup InFlight)

\* the queue's thread takes the item off the queue and calls the function
WorkerStart ==
    /\ wpc = "idle" /\ queued >= 1
    /\ queued' = queued - 1
    /\ wpc' = "get_ctrl"
    /\ runs' = IF runs < 2 THEN runs + 1 ELSE runs
    /\ exposed' = exposed \cup InFlight
    /\ served' = burst
    /\ burst' = {}
    /\ UNCHANGED <<p2, r, g, b, updated, lock, wrc, pcc_cfg, hw,
                   bootVars, envVars, userVars,
                   wid, tid, lastSet, tclean, submitted, owed, deferred>>

\* ctrl_pdata = get_ctrl(mlc->mfd); if (ctrl_pdata == NULL) return;
\* resolved says that get_ctrl gave a handle; when it gave none, the panel did
\* not stay usable and no request is owed a command
WorkerGetCtrl(resolved) ==
    /\ wpc = "get_ctrl"
    /\ wpc' = IF resolved THEN "power" ELSE "idle"
    /\ owed' = (owed /\ resolved)
    /\ deferred' = deferred
    /\ IF resolved THEN UNCHANGED <<exposed, served, submitted>> ELSE RunEnds
    /\ UNCHANGED <<p2, wrc, pcc_cfg, hw, bootVars, ctxVars, envVars, userVars,
                   wid, tid, lastSet, tclean, burst, runs>>

\* the power test leaving through "out:", which clears the pending mask
WorkerPowerClears ==
    /\ wpc = "power"
    /\ wpc' = IF power THEN "lock" ELSE "idle"
    /\ updated' = IF power THEN updated ELSE 0
    /\ IF power THEN UNCHANGED <<exposed, served, submitted>> ELSE RunEnds
    /\ deferred' = deferred
    /\ UNCHANGED <<p2, r, g, b, lock, queued, wrc, pcc_cfg, hw, bootVars, envVars, userVars,
                   wid, tid, lastSet, tclean, burst, runs, owed>>

\* if (!mdss_panel_is_power_on_interactive(...)) return;
WorkerPower ==
    /\ wpc = "power"
    /\ wpc' = IF power THEN "lock" ELSE "idle"
    /\ IF power THEN UNCHANGED <<exposed, served, submitted>> ELSE RunEnds
    /\ deferred' = (deferred \/ (~power /\ HasRgb(updated)))
    /\ UNCHANGED <<p2, wrc, pcc_cfg, hw, bootVars, ctxVars, envVars, userVars,
                   wid, tid, lastSet, tclean, burst, runs, owed>>

\* a work item that goes on without mutex_lock
WorkerLockSkips ==
    /\ wpc = "lock"
    /\ wpc' = "test"
    /\ UNCHANGED <<p2, wrc, pcc_cfg, hw, bootVars, ctxVars, envVars, userVars, histVars>>

\* mutex_lock(&mlc->lock)
WorkerLock ==
    /\ wpc = "lock" /\ lock = "free"
    /\ lock' = Worker
    /\ wpc' = "test"
    /\ UNCHANGED <<p2, r, g, b, updated, queued, wrc, pcc_cfg, hw,
                   bootVars, envVars, userVars, histVars>>

\* a work item that never calls the programmer
WorkerTestSkips ==
    /\ wpc = "test"
    /\ wpc' = "clear"
    /\ UNCHANGED <<p2, wrc, pcc_cfg, hw, bootVars, ctxVars, envVars, userVars, histVars>>

\* if (mlc->updated & MODE_RGB) mdss_livedisplay_update_pcc(mlc);
WorkerTest ==
    /\ wpc = "test"
    /\ wpc' = IF HasRgb(updated) THEN "pcc_build" ELSE "clear"
    /\ UNCHANGED <<p2, wrc, pcc_cfg, hw, bootVars, ctxVars, envVars, userVars, histVars>>

(***************************************************************************)
(* mdss_livedisplay_update_pcc, called by the work item.                   *)
(***************************************************************************)
\* the green gain written to the green row's blue term
PccBuildTypo ==
    /\ wpc = "pcc_build"
    /\ pcc_cfg' = [ZeroCfg EXCEPT !.block = PccBlockOf(index),
                                  !.ops = PccOpsOf(r, g, b),
                                  !.r.r = r, !.g.b = g, !.b.b = b]
    /\ wpc' = "pcc_submit"
    /\ UNCHANGED <<p2, wrc, hw, bootVars, ctxVars, envVars, userVars, histVars>>

\* memset, then block, ops and the three coefficients, from the context
PccBuild ==
    /\ wpc = "pcc_build"
    /\ pcc_cfg' = [ZeroCfg EXCEPT !.block = PccBlockOf(index),
                                  !.ops = PccOpsOf(r, g, b),
                                  !.r.r = r, !.g.g = g, !.b.b = b]
    /\ wpc' = "pcc_submit"
    /\ UNCHANGED <<p2, wrc, hw, bootVars, ctxVars, envVars, userVars, histVars>>

\* return mdss_mdp_user_pcc_config(&pcc_cfg): rc is its result, which the
\* work item drops
PccSubmit(rc) ==
    /\ wpc = "pcc_submit"
    /\ hw' = pcc_cfg
    /\ wrc' = rc
    /\ wpc' = "clear"
    /\ submitted' = IF wid \in Live THEN submitted \cup {wid} ELSE submitted
    /\ UNCHANGED <<p2, pcc_cfg, bootVars, ctxVars, envVars, userVars,
                   wid, tid, lastSet, tclean, exposed, burst, served, runs, owed, deferred>>

\* a work item that queues itself again when the hardware call failed
WorkerClearRetries ==
    /\ wpc = "clear"
    /\ updated' = 0
    /\ wpc' = "unlock"
    /\ owed' = (owed /\ wrc = RetNone)
    /\ deferred' = FALSE
    /\ queued' = IF wrc.k = "err" THEN 1 ELSE queued
    /\ UNCHANGED <<p2, r, g, b, lock, wrc, pcc_cfg, hw,
                   bootVars, envVars, userVars,
                   wid, tid, lastSet, tclean, exposed, burst, served, submitted, runs>>

\* out: mlc->updated = 0;
WorkerClear ==
    /\ wpc = "clear"
    /\ updated' = 0
    /\ wpc' = "unlock"
    /\ owed' = (owed /\ wrc = RetNone)
    /\ deferred' = FALSE
    /\ UNCHANGED <<p2, r, g, b, lock, queued, wrc, pcc_cfg, hw,
                   bootVars, envVars, userVars,
                   wid, tid, lastSet, tclean, exposed, burst, served, submitted, runs>>

WorkerUnlock ==
    /\ wpc = "unlock"
    /\ lock' = "free"
    /\ wpc' = "idle"
    /\ wrc' = RetNone
    /\ RunEnds
    /\ UNCHANGED <<p2, r, g, b, updated, queued, pcc_cfg, hw,
                   bootVars, envVars, userVars,
                   wid, tid, lastSet, tclean, burst, runs, owed, deferred>>

(***************************************************************************)
(* The system.                                                             *)
(***************************************************************************)
WorkerStep ==
    \/ WorkerStart
    \/ \E resolved \in BOOLEAN : WorkerGetCtrl(resolved)
    \/ WorkerPower \/ WorkerLock \/ WorkerTest
    \/ PccBuild
    \/ \E rc \in {RetCount(0), RetErr(EIO)} : PccSubmit(rc)
    \/ WorkerClear \/ WorkerUnlock

\* the steps of a call that is under way
SetRgbStep(t) ==
    \/ SetRgbCheck(t) \/ SetRgbLock(t)
    \/ SetRgbStoreR(t) \/ SetRgbStoreG(t) \/ SetRgbStoreB(t) \/ SetRgbUnlock(t)

UpdateStep(t) ==
    \/ UpdateLock(t) \/ UpdateOr(t) \/ UpdateUnlock(t) \/ UpdateQueue(t)

GetRgbStep(t) == \E ch \in {"r", "g", "b"} : GetRgbRead(t, ch)

UserStep(t) == SetRgbStep(t) \/ UpdateStep(t) \/ GetRgbStep(t) \/ Return(t)

UserCall(t) ==
    \/ \E buf \in Inputs : SetRgbCall(t, buf)
    \/ UpdateCall(t)
    \/ GetRgbCall(t)

Boot ==
    \/ \E pinfoOk \in BOOLEAN, allocOk \in BOOLEAN : ParseDt(pinfoOk, allocOk)
    \/ \E idx \in Indexes, rc \in {0, -ENOMEM} : CreateSysfs(idx, rc)

Next ==
    \/ Boot
    \/ PowerChange
    \/ \E t \in Threads : UserCall(t)
    \/ \E t \in Threads : UserStep(t)
    \/ WorkerStep

Spec == Init /\ [][Next]_vars

(***************************************************************************)
(* The same system with the requests that matter to the work queue: writes *)
(* of one accepted triple and direct update requests.  The queue's thread  *)
(* runs a queued item, and a thread that is past the tests of set_rgb, or  *)
(* inside mdss_livedisplay_update, goes on to the end of the call.         *)
(***************************************************************************)
FairCall(t) == SetRgbCall(t, TxtMixed) \/ UpdateCall(t)

FairUserStep(t) == SetRgbStep(t) \/ UpdateStep(t) \/ Return(t)

\* what a thread does once it is past the tests of set_rgb
Locking(t) ==
    \/ SetRgbLock(t)
    \/ SetRgbStoreR(t) \/ SetRgbStoreG(t) \/ SetRgbStoreB(t) \/ SetRgbUnlock(t)
    \/ UpdateStep(t)

FairNext ==
    \/ Boot
    \/ PowerChange
    \/ \E t \in Threads : FairCall(t)
    \/ \E t \in Threads : FairUserStep(t)
    \/ WorkerStep

FairSpec ==
    /\ Init /\ [][FairNext]_vars
    /\ WF_vars(WorkerStep)
    /\ \A t \in Threads : WF_vars(Locking(t))

(***************************************************************************)
(* Two panels.  Each has a context, a lock and a single-threaded queue of   *)
(* its own (parse_dt is called once per panel), so the two work items run  *)
(* on two threads; pcc_cfg, a static local of update_pcc, and the hardware *)
(* are the same for both.  The first panel is the one above, asked for     *)
(* updates by mdss_livedisplay_update; on the second, a write of the rgb   *)
(* attribute is one step and its work item runs line by line.              *)
(***************************************************************************)
Worker2 == "kworker2"

\* both panels have been through parse_dt and create_sysfs and are interactive
PanelsInit ==
    /\ phase = "ready" /\ parseIn = [pinfo |-> TRUE, alloc |-> TRUE]
    /\ parseRet = RetCount(0) /\ mlc = "ctx" /\ index = 0
    /\ r = UNITY /\ g = UNITY /\ b = UNITY /\ updated = 0 /\ lock = "free" /\ queued = 0
    /\ power = TRUE
    /\ wpc = "idle" /\ wrc = RetNone /\ pcc_cfg = ZeroCfg /\ hw = NoCmd
    /\ tpc = [t \in Threads |-> "idle"]
    /\ top = [t \in Threads |-> "none"]
    /\ tbuf = [t \in Threads |-> <<>>]
    /\ tloc = [t \in Threads |-> <<0, 0, 0>>]
    /\ tgot = [t \in Threads |-> NoTriple]
    /\ tleft = [t \in Threads |-> {}]
    /\ tret = [t \in Threads |-> RetNone]
    /\ ncalls = 0
    /\ wid = 0 /\ tid = [t \in Threads |-> 0]
    /\ lastSet = NoTriple
    /\ tclean = [t \in Threads |-> TRUE]
    /\ exposed = {} /\ burst = {} /\ served = {} /\ submitted = {}
    /\ runs = 0 /\ owed = FALSE /\ deferred = FALSE
    /\ p2 = [NoPanel EXCEPT !.r = UNITY, !.g = UNITY, !.b = UNITY]

\* what the second panel's steps leave alone, the buffer and the hardware apart
firstPanel == <<bootVars, ctxVars, envVars, wpc, wrc, userVars, histVars>>

\* mdss_livedisplay_set_rgb on the second panel, with a buffer that passes the
\* tests: the stores under the lock, then mdss_livedisplay_update
P2SetRgb(buf) ==
    /\ ~SetRgbRejects(buf)
    /\ p2.lock = "free" /\ ncalls < MaxCalls
    /\ LET p == Sscanf3(buf)
       IN  p2' = [p2 EXCEPT !.r = p.r, !.g = p.g, !.b = p.b,
                            !.updated = OrMode(p2.updated, MODE_RGB),
                            !.queued = QueueWork(p2.queued)]
    /\ ncalls' = ncalls + 1
    /\ UNCHANGED <<bootVars, ctxVars, envVars, wpc, wrc, histVars,
                   tpc, top, tbuf, tloc, tgot, tleft, tret, pcc_cfg, hw>>

W2Start ==
    /\ p2.pc = "idle" /\ p2.queued >= 1
    /\ p2' = [p2 EXCEPT !.pc = "get_ctrl", !.queued = p2.queued - 1]
    /\ UNCHANGED <<firstPanel, pcc_cfg, hw>>

\* get_ctrl and the power test: go says that both let the run go on
W2Check(go) ==
    /\ p2.pc = "get_ctrl"
    /\ p2' = [p2 EXCEPT !.pc = IF go THEN "lock" ELSE "idle"]
    /\ UNCHANGED <<firstPanel, pcc_cfg, hw>>

W2Lock ==
    /\ p2.pc = "lock" /\ p2.lock = "free"
    /\ p2' = [p2 EXCEPT !.pc = "test", !.lock = Worker2]
    /\ UNCHANGED <<firstPanel, pcc_cfg, hw>>

W2Test ==
    /\ p2.pc = "test"
    /\ p2' = [p2 EXCEPT !.pc = IF HasRgb(p2.updated) THEN "pcc_memset" ELSE "clear"]
    /\ UNCHANGED <<firstPanel, pcc_cfg, hw>>

\* update_pcc line by line: memset, block, ops, r.r, g.g, b.b
W2Fill ==
    /\ p2.pc \in {"pcc_memset", "pcc_block", "pcc_ops", "pcc_r", "pcc_g", "pcc_b"}
    /\ pcc_cfg' =
           CASE p2.pc = "pcc_memset" -> ZeroCfg
             [] p2.pc = "pcc_block" -> [pcc_cfg EXCEPT !.block = PccBlockOf(p2.index)]
             [] p2.pc = "pcc_ops" -> [pcc_cfg EXCEPT !.ops = PccOpsOf(p2.r, p2.g, p2.b)]
             [] p2.pc = "pcc_r" -> [pcc_cfg EXCEPT !.r.r = p2.r]
             [] p2.pc = "pcc_g" -> [pcc_cfg EXCEPT !.g.g = p2.g]
             [] p2.pc = "pcc_b" -> [pcc_cfg EXCEPT !.b.b = p2.b]
    /\ p2' = [p2 EXCEPT !.pc =
                 CASE p2.pc = "pcc_memset" -> "pcc_block"
                   [] p2.pc = "pcc_block" -> "pcc_ops"
                   [] p2.pc = "pcc_ops" -> "pcc_r"
                   [] p2.pc = "pcc_r" -> "pcc_g"
                   [] p2.pc = "pcc_g" -> "pcc_b"
                   [] p2.pc = "pcc_b" -> "pcc_submit"]
    /\ UNCHANGED <<firstPanel, hw>>

\* return mdss_mdp_user_pcc_config(&pcc_cfg)
W2Submit ==
    /\ p2.pc = "pcc_submit"
    /\ hw' = pcc_cfg
    /\ p2' = [p2 EXCEPT !.pc = "clear"]
    /\ UNCHANGED <<firstPanel, pcc_cfg>>

\* mlc->updated = 0; mutex_unlock(&mlc->lock)
W2Clear ==
    /\ p2.pc = "clear"
    /\ p2' = [p2 EXCEPT !.pc = "idle", !.updated = 0, !.lock = "free"]
    /\ UNCHANGED <<firstPanel, pcc_cfg, hw>>

Worker2Step ==
    \/ W2Start
    \/ \E go \in BOOLEAN : W2Check(go)
    \/ W2Lock \/ W2Test \/ W2Fill \/ W2Submit \/ W2Clear

PanelsNext ==
    \/ \E t \in Threads : UpdateCall(t)
    \/ \E t \in Threads : UpdateStep(t) \/ Return(t)
    \/ WorkerStep
    \/ \E buf \in {TxtMixed, TxtAbc} : P2SetRgb(buf)
    \/ Worker2Step

PanelsSpec == PanelsInit /\ [][PanelsNext]_vars

(***************************************************************************)
(* Properties.                                                             *)
(***************************************************************************)
Bit(n, flag) == (n \div flag) % 2 = 1
Stored == <<r, g, b>>
Diagonal(cmd) == <<cmd.r.r, cmd.g.g, cmd.b.b>>
Triple(p) == <<p.r, p.g, p.b>>

\* the worker has called mdss_mdp_pcc_config in this run
Submitting == wpc = "clear" /\ wrc.k # "none"

\* the worker has built the command and is about to submit it
Built == wpc = "pcc_submit"

\* the worker has submitted the command of the stored triple and cleared the
\* pending mask, and still holds the lock
Answered ==
    /\ wpc = "unlock" /\ wrc.k # "none" /\ lock = Worker
    /\ Diagonal(hw) = Stored /\ updated = 0

\* a worker run ends at the test of the control handle or of the power state
AbortedRun == wpc \in {"get_ctrl", "power"} /\ wpc' = "idle"

\* the writes that are to be rejected: more than 19 bytes, or a value that
\* sscanf delivered below 0 or above 32768
ClaimedInvalid ==
    {buf \in Inputs :
        LET p == Sscanf3(buf)
        IN  Len(buf) > 19 \/ \E v \in {p.r, p.g, p.b} : v < 0 \/ v > 32768}

\* the writes from which sscanf gets fewer than three integers
Malformed == {buf \in Inputs : Sscanf3(buf).n < 3}

\* cmd is the command of the stored triple for the panel of this context
CommandOf(cmd) ==
    /\ cmd.block = index + MDP_LOGICAL_BLOCK_DISP_0
    /\ Diagonal(cmd) = Stored
    /\ [cmd.r EXCEPT !.r = 0] = ZeroCoeff
    /\ [cmd.g EXCEPT !.g = 0] = ZeroCoeff
    /\ [cmd.b EXCEPT !.b = 0] = ZeroCoeff

NoRequestLost ==
    /\ owed ~> ~owed
    /\ [][(owed /\ ~owed') =>
             \/ Answered'
             \/ ~power'
             \/ wpc = "get_ctrl" /\ wpc' = "idle"]_vars

\* C2: a request is owed a command and the run that answers it has just
\* given the command to the hardware
NoRequestLostWitness == owed /\ Submitting /\ Diagonal(hw) = Stored /\ queued = 1

\* C3: a worker run that ends at the test of the control handle or at the
\* test of the power state took no lock, gave the hardware nothing and left
\* the pending mask and the stored triple as they were.
AbortHasNoEffect ==
    [][AbortedRun => UNCHANGED <<r, g, b, updated, lock, queued, hw, pcc_cfg>>]_vars

\* C3: a run was aborted and the request it was queued for is still pending
AbortWitness ==
    /\ wpc = "idle" /\ queued = 0 /\ HasRgb(updated) /\ lock = "free"
    /\ \A t \in Threads : tpc[t] = "idle"
    /\ hw = NoCmd /\ lastSet # NoTriple

\* C4: a set_rgb call whose buffer is longer than 19 bytes, or one of whose
\* three parsed values is negative or above 32768, returns -EINVAL, and no
\* step of it changes the stored triple, the pending mask, the lock or the
\* work queue.
RejectedWriteHasNoEffect ==
    /\ [](\A t \in Threads :
             (tpc[t] = "ret" /\ top[t] = "set" /\ tbuf[t] \in ClaimedInvalid)
                 => tret[t] = RetErr(EINVAL))
    /\ [][\A t \in Threads :
             (top[t] = "set" /\ tpc'[t] # tpc[t] /\ tbuf[t] \in ClaimedInvalid)
                 => /\ UNCHANGED <<r, g, b, updated, lock, queued>>
                    /\ tpc'[t] \in {"ret", "idle"}]_vars

\* C4: a write whose third value alone is out of range has been rejected
\* while the context holds a triple written before
RejectedWriteWitness ==
    \E t \in Threads :
        /\ tpc[t] = "ret" /\ tbuf[t] = TxtLastOver /\ tret[t] = RetErr(EINVAL)
        /\ lastSet # NoTriple /\ Stored = lastSet

\* C5, as claimed: no step of a set_rgb call from whose buffer fewer than
\* three integers can be parsed changes the stored triple.
MalformedWriteHasNoEffect ==
    [][\A t \in Threads :
          (top[t] = "set" /\ tpc'[t] # tpc[t] /\ tbuf[t] \in Malformed)
              => UNCHANGED <<r, g, b>>]_vars

\* C6: a get_rgb that no store overlaps returns the text of the triple that
\* the last set_rgb to store parsed from its buffer, and that text parses
\* back to the same triple.
RoundTrip ==
    \A t \in Threads :
        (tpc[t] = "ret" /\ top[t] = "get" /\ tclean[t] /\ lastSet # NoTriple)
            => /\ tret[t] = RetText(FormatRgb(lastSet[1], lastSet[2], lastSet[3]))
               /\ Triple(Sscanf3(tret[t].v)) = lastSet
               /\ Sscanf3(tret[t].v).n = 3

\* C6: a get_rgb returns after a set_rgb stored a triple other than the
\* default and the worker gave it to the hardware
RoundTripWitness ==
    \E t \in Threads :
        /\ tpc[t] = "ret" /\ top[t] = "get" /\ tclean[t]
        /\ lastSet = <<32768, 17347, 0>> /\ Diagonal(hw) = lastSet

\* C7: the command built from the stored triple asks for "disable" exactly
\* when red, green and blue are all 32768, for "enable" exactly when they are
\* not, and for "write" in both cases.
OpsFollowUnity ==
    Built =>
        /\ Bit(pcc_cfg.ops, MDP_PP_OPS_DISABLE) <=> (r = 32768 /\ g = 32768 /\ b = 32768)
        /\ Bit(pcc_cfg.ops, MDP_PP_OPS_ENABLE) <=> ~(r = 32768 /\ g = 32768 /\ b = 32768)
        /\ Bit(pcc_cfg.ops, MDP_PP_OPS_WRITE)

\* C7: an "enable" command is built for a triple one channel of which is 32768,
\* after a "disable" command went to the hardware
OpsWitness ==
    /\ Built /\ r = 32768 /\ g # 32768
    /\ Bit(pcc_cfg.ops, MDP_PP_OPS_ENABLE)
    /\ Bit(hw.ops, MDP_PP_OPS_DISABLE)

\* C8: the command built, and the command given to the hardware, has the
\* block of the panel's index, the stored red, green and blue as its three
\* diagonal terms, and zero in every other term.
CommandMatchesContext ==
    /\ Built => CommandOf(pcc_cfg)
    /\ Submitting => CommandOf(hw)

\* C8: a command is built in the buffer that held the command of an earlier
\* call with other values
CommandWitness == Built /\ hw # NoCmd /\ Diagonal(hw) # Stored /\ g # 0

\* C9, as claimed: parse_dt either succeeds and leaves a context with the
\* triple (32768, 32768, 32768) and an empty pending mask, or returns an error
\* and leaves no context; it returns -ENOMEM when there is no memory and an
\* error when pinfo is NULL.
InitContract ==
    phase # "boot" =>
        /\ \/ parseRet = RetCount(0) /\ mlc = "ctx"
           \/ parseRet.k = "err" /\ mlc = "NULL"
        /\ phase = "parsed" => (Stored = <<32768, 32768, 32768>> /\ updated = 0)
        /\ ~parseIn.pinfo => parseRet.k = "err"
        /\ (parseIn.pinfo /\ ~parseIn.alloc) => parseRet = RetErr(ENOMEM)

\* C10, as claimed: a thread about to read or write red, green, blue or the
\* pending mask holds the lock.
LockDiscipline ==
    /\ \A t \in Threads :
           tpc[t] \in {"set_r", "set_g", "set_b", "upd_or", "get_read"} => lock = t
    /\ wpc \in {"test", "pcc_build", "clear"} => lock = Worker

\* the places of a user thread and of the work item between mutex_lock and
\* mutex_unlock
LockedPcs == {"set_r", "set_g", "set_b", "set_unlock", "upd_or", "upd_unlock"}
WorkerLockedPcs == {"test", "pcc_build", "pcc_submit", "clear", "unlock"}

\* the work item is inside mdss_livedisplay_update_pcc
InProgrammer == wpc \in {"pcc_build", "pcc_submit"}

\* nothing is queued, the work item is not running and no call is under way
Quiet ==
    /\ wpc = "idle" /\ queued = 0
    /\ \A t \in Threads : tpc[t] = "idle"

\* C11: once the context exists, red, green and blue are each within
\* 0 .. 32768, whatever the writes were: accepted, out of range, negative,
\* too long or not numbers.
RangeInvariant ==
    mlc = "ctx" => (r \in 0..32768 /\ g \in 0..32768 /\ b \in 0..32768)

\* C11: a negative write is being rejected after a write that is no number
\* stored its triple
RangeWitness ==
    \E t \in Threads :
        /\ tpc[t] = "ret" /\ tbuf[t] = TxtNeg /\ tret[t] = RetErr(EINVAL)
        /\ lastSet = <<0, 0, 0>> /\ Stored = lastSet

\* C12: while the work item is inside mdss_livedisplay_update_pcc it holds
\* the lock and no user thread is between mutex_lock and mutex_unlock, and
\* the programmer is entered only from the work item's locked test.
ProgrammerExclusion ==
    /\ [](InProgrammer =>
             /\ lock = Worker
             /\ \A t \in Threads : tpc[t] \notin LockedPcs)
    /\ [][(~InProgrammer /\ InProgrammer') => (wpc = "test" /\ lock = Worker)]_vars

\* C12: the work item is inside the programmer while a set_rgb call waits
\* for the lock
ProgrammerWitness ==
    /\ wpc = "pcc_submit" /\ lock = Worker
    /\ \E t \in Threads : tpc[t] = "set_lock"

\* C13: when the work item is about to release the lock the pending mask is
\* 0, whether the hardware call returned 0, returned an error or was not
\* made; an item is put on the queue only by queue_work in
\* mdss_livedisplay_update, a run starts only by taking a queued item, and a
\* command reaches the hardware only in a run: so a failed call is followed
\* by no run and no command that no request asked for.
UnconditionalClear ==
    /\ [](wpc = "unlock" => (updated = 0 /\ lock = Worker))
    /\ [][(queued' > queued) =>
              (\E t \in Threads : tpc[t] = "upd_queue" /\ tpc'[t] = "ret")]_vars
    /\ [][(wpc = "idle" /\ wpc' # "idle") => (queued >= 1 /\ queued' = queued - 1)]_vars
    /\ [][(hw' # hw) => (wpc = "pcc_submit")]_vars
    /\ [][Quiet => (wpc' = "idle" /\ hw' = hw /\ queued' = 0)]_vars

\* C13: the hardware call failed and the work item has cleared the pending
\* mask, with nothing left on the queue
ClearWitness ==
    /\ wpc = "unlock" /\ wrc = RetErr(EIO) /\ updated = 0 /\ queued = 0
    /\ \A t \in Threads : tpc[t] = "idle"

\* C14, as claimed.  Once a run has left at the power test with the update
\* pending, a request made while the panel is interactive gets the update
\* applied.
OneShotAsClaimed == (deferred /\ owed) ~> ~deferred

\* C14, amended.  A run that leaves at the power test leaves the update
\* pending; a later request made while the panel is interactive gets it
\* applied unless the panel leaves the interactive state or the run finds no
\* control handle; the pending update goes away only by a run submitting the
\* stored triple and clearing the mask; a change of the power state queues
\* nothing and programs nothing; and with nothing queued and no call under way
\* the update stays unapplied.
OneShot ==
    /\ [](deferred => HasRgb(updated))
    /\ (deferred /\ owed) ~> (~deferred \/ ~owed)
    /\ [][(deferred /\ ~deferred') => Answered']_vars
    /\ [][(power' # power) => UNCHANGED <<queued, wpc, hw, updated, deferred>>]_vars
    /\ [][(Quiet /\ deferred) => (wpc' = "idle" /\ hw' = hw /\ deferred')]_vars

\* C14: the update that a run left pending at the power test is in the
\* command that a later run, queued by a request made while the panel was
\* interactive, is about to submit
OneShotWitness == deferred /\ owed /\ power /\ Built /\ CommandOf(pcc_cfg)

\* the triples that parse_dt and the accepted writes store as a whole
WholeTriples ==
    {<<UNITY, UNITY, UNITY>>}
        \cup {Triple(Sscanf3(buf)) : buf \in {x \in Inputs : ~SetRgbRejects(x)}}

\* no set_rgb or mdss_livedisplay_update call is under way, the pending mask
\* is 0 and the work item is neither queued nor running
Quiescent ==
    /\ wpc = "idle" /\ queued = 0 /\ updated = 0
    /\ \A t \in Threads : top[t] \in {"set", "upd"} => tpc[t] = "ret"

\* C15: get_rgb returns the text of the three values it read; what it read is
\* a triple that was never stored as a whole only if a store of set_rgb
\* overlapped the call, and that does happen.
ReadRace ==
    \A t \in Threads :
        (tpc[t] = "ret" /\ top[t] = "get")
            => /\ tret[t] = RetText(FormatRgb(tgot[t][1], tgot[t][2], tgot[t][3]))
               /\ tgot[t] \notin WholeTriples => ~tclean[t]

\* C15: a get_rgb returns red of the new triple with green and blue of the old
ReadRaceWitness ==
    \E t \in Threads :
        /\ tpc[t] = "ret" /\ top[t] = "get" /\ ~tclean[t]
        /\ tgot[t] \notin WholeTriples
        /\ tgot[t] = <<0, 32768, 32768>>

\* C16: when no set_rgb or update call is under way, the pending mask is 0
\* and the work item is neither queued nor running, either no set_rgb has
\* stored a triple or the command last given to the hardware carries the
\* stored triple.
QuiescentConsistency ==
    Quiescent => (lastSet = NoTriple \/ (hw # NoCmd /\ Diagonal(hw) = Stored))

\* C16: all is quiet after a second triple replaced the first and reached the
\* hardware
QuiescentWitness ==
    /\ Quiescent /\ \A t \in Threads : tpc[t] = "idle"
    /\ lastSet = <<32768, 17347, 0>> /\ Diagonal(hw) = Stored /\ wid >= 2

\* C17: the triple of every command built, and of every command given to the
\* hardware, is the default or the triple one accepted write stored, never
\* channels of two.
WholeTripleAtomicity ==
    /\ Built => Diagonal(pcc_cfg) \in WholeTriples
    /\ hw # NoCmd => Diagonal(hw) \in WholeTriples

\* C17: the work item has submitted the triple of one write while a set_rgb
\* with another triple waits for the lock
WholeTripleWitness ==
    /\ wpc = "clear" /\ wrc.k # "none" /\ Diagonal(hw) = <<0, 0, 0>>
    /\ \E t \in Threads : tpc[t] = "set_lock" /\ tloc[t] = <<32768, 17347, 0>>

\* C18, as claimed: the command a work item gives to the hardware has the
\* block and the stored triple of that work item's own panel.
CrossPanelIsolation ==
    /\ [][(wpc = "pcc_submit" /\ wpc' = "clear") =>
              (hw'.block = PccBlockOf(index) /\ Diagonal(hw') = Stored)]_vars
    /\ [][(p2.pc = "pcc_submit" /\ p2'.pc = "clear") =>
              (hw'.block = PccBlockOf(p2.index)
                  /\ Diagonal(hw') = <<p2.r, p2.g, p2.b>>)]_vars

\* the threads that are between mutex_lock and mutex_unlock
Holders ==
    {t \in Threads : tpc[t] \in LockedPcs}
        \cup (IF wpc \in WorkerLockedPcs THEN {Worker} ELSE {})

\* C19: at most one thread is between mutex_lock and mutex_unlock and it is
\* the owner of the lock, so a thread that has returned, and a work item that
\* has, holds no lock; the lock, once taken, is released; and a thread or work
\* item that waits for the lock gets it.
LockReleased ==
    /\ [](/\ Cardinality(Holders) <= 1
          /\ \A h \in Holders : lock = h
          /\ Holders = {} => lock = "free")
    /\ (lock # "free") ~> (lock = "free")
    /\ \A t \in Threads :
           (tpc[t] \in {"set_lock", "upd_lock"}) ~> (tpc[t] \in LockedPcs)
    /\ (wpc = "lock") ~> (wpc \in WorkerLockedPcs)

\* C19: a set_rgb and the work item both wait for the lock that an update
\* call holds
LockWitness ==
    /\ wpc = "lock"
    /\ \E t \in Threads, u \in Threads :
           tpc[t] = "set_lock" /\ tpc[u] = "upd_or" /\ lock = u

====
